---- MODULE Spec2Model ----
(***************************************************************************)
(* Titan matching engine core (crates/titan-core): the order pool, the     *)
(* price level queue, the book side / order book and the matching engine's *)
(* submit_order / cancel_order state machine, translated operation by      *)
(* operation from the Rust source.                                         *)
(*                                                                         *)
(* Option<T> is modelled as a sequence: None is <<>>, Some(x) is <<x>>.    *)
(* A MaybeUninit<Order> slot is None until the first insert writes it.     *)
(***************************************************************************)
EXTENDS Integers, Sequences, FiniteSets, TLC

\* ------------------------------------------------------------------ bounds
\* The program's MAX_LEVELS (65536), MAX_ORDERS_PER_LEVEL (1024),
\* MAX_FILLS_PER_ORDER (64) and pool capacity (2^pool_bits) scaled down.
MAX_LEVELS == 3
MAX_ORDERS_PER_LEVEL == 2
MAX_FILLS_PER_ORDER == 2
PoolCapacity == 2
\* Largest quantity an incoming order carries, and the number of calls made.
MaxQty == 2
MaxOps == 3

\* ------------------------------------------------------- program constants
TICK_SIZE == 100
\* u32::MAX and u64::MAX; TLC's integers end at 2^31 - 1, which stands for both.
U32_MAX == 2147483647
U64_MAX == 2147483647
\* The engine's configuration: MatchingEngine::new(SymbolId(1), _, Price::ZERO).
base_price == 0
SYMBOL == 1

Sides == {"Buy", "Sell"}
OrderTypes == {"Limit", "IOC", "FOK", "PostOnly"}

\* ------------------------------------------------------------------ Option
None == <<>>
Some(x) == <<x>>
IsSome(o) == o /= <<>>
Unwrap(o) == o[1]

\* `let v = ...;` of the source: binds the value once for the expression F.
Let(v, F(_)) == F(v)

\* ------------------------------------------------------------- fixed.rs
saturating_add(a, b) == IF a + b > U64_MAX THEN U64_MAX ELSE a + b
saturating_sub(a, b) == IF a < b THEN 0 ELSE a - b
\* Quantity::min: if self.0 < other.0 { self } else { other }
Quantity_min(a, b) == IF a < b THEN a ELSE b

\* ------------------------------------------------------------- order.rs
opposite(side) == IF side = "Buy" THEN "Sell" ELSE "Buy"

Order_new(order_id, symbol, side, order_type, price, qty, timestamp) ==
    [price |-> price, remaining_qty |-> qty, order_id |-> order_id,
     timestamp |-> timestamp, original_qty |-> qty, symbol |-> symbol,
     side |-> side, order_type |-> order_type]

is_filled(order) == order.remaining_qty = 0
Order_fill(order, qty) ==
    [order EXCEPT !.remaining_qty = saturating_sub(order.remaining_qty, qty)]
filled_qty(order) == order.original_qty - order.remaining_qty

\* -------------------------------------------------------------- pool.rs
INVALID == U32_MAX
is_valid(handle) == handle /= U32_MAX

\* u32 `+= 1` and `-= 1`: a release build wraps around; a debug build panics on
\* the overflow (the operations below raise dbg_fail where it does).
wrapping_inc(n) == IF n = U32_MAX THEN 0 ELSE n + 1
wrapping_dec(n) == IF n = 0 THEN U32_MAX ELSE n - 1

\* free_list = (0..capacity).rev(): the top of the stack (the last element) is 0.
OrderPool_new(capacity) ==
    [orders |-> [i \in 0..(capacity - 1) |-> None],
     free_list |-> [i \in 1..capacity |-> capacity - i],
     capacity |-> capacity,
     active_count |-> 0]

\* allocate() taking the oldest entry of the free list instead of the newest.
allocate_oldest(e) ==
    IF e.pool.free_list = <<>>
    THEN [e |-> e, handle |-> None]
    ELSE LET idx == Head(e.pool.free_list)
         IN [e |-> [e EXCEPT !.dbg_fail = e.dbg_fail \/ e.pool.active_count = U32_MAX,
                             !.pool.free_list = Tail(e.pool.free_list),
                             !.pool.active_count = wrapping_inc(e.pool.active_count),
                             !.live = e.live \cup {idx}],
             handle |-> Some(idx)]

\* The engine state threaded through the operations: the book, the pool, the
\* set of live handles (allocated and not yet deallocated) and whether a
\* debug_assert! of the code has failed on the way.
allocate(e) ==
    IF e.pool.free_list = <<>>
    THEN [e |-> e, handle |-> None]
    ELSE LET n == Len(e.pool.free_list)
             idx == e.pool.free_list[n]
         IN [e |-> [e EXCEPT !.dbg_fail = e.dbg_fail \/ e.pool.active_count = U32_MAX,
                             !.pool.free_list = SubSeq(e.pool.free_list, 1, n - 1),
                             !.pool.active_count = wrapping_inc(e.pool.active_count),
                             !.live = e.live \cup {idx}],
             handle |-> Some(idx)]

deallocate(e, handle) ==
    [e EXCEPT !.dbg_fail = e.dbg_fail \/ ~(handle < e.pool.capacity)
                                      \/ ~(e.pool.active_count > 0),
              !.pool.free_list = Append(e.pool.free_list, handle),
              !.pool.active_count = wrapping_dec(e.pool.active_count),
              !.live = e.live \ {handle}]

pool_get(e, handle) == Unwrap(e.pool.orders[handle])
pool_insert(e, handle, order) == [e EXCEPT !.pool.orders[handle] = Some(order)]

\* ------------------------------------------------------------- level.rs
PriceLevel_new ==
    [total_qty |-> 0, order_count |-> 0, head |-> 0, tail |-> 0,
     orders |-> [i \in 0..(MAX_ORDERS_PER_LEVEL - 1) |-> INVALID]]

level_is_empty(level) == level.order_count = 0
level_len(level) == level.order_count
level_is_full(level) == level.order_count >= MAX_ORDERS_PER_LEVEL

push_back(level, handle, qty) ==
    IF level_is_full(level)
    THEN [ok |-> FALSE, level |-> level]
    ELSE [ok |-> TRUE,
          level |-> [level EXCEPT
              !.orders[level.tail] = handle,
              !.tail = (level.tail + 1) % MAX_ORDERS_PER_LEVEL,
              !.order_count = level.order_count + 1,
              !.total_qty = saturating_add(level.total_qty, qty)]]

front(level) ==
    IF level_is_empty(level) THEN None ELSE Some(level.orders[level.head])

\* pop_front taking the handle pushed last instead of the one at head.
pop_front_newest(level) ==
    IF level_is_empty(level)
    THEN [handle |-> None, level |-> level]
    ELSE LET back == (level.tail + MAX_ORDERS_PER_LEVEL - 1) % MAX_ORDERS_PER_LEVEL
         IN [handle |-> Some(level.orders[back]),
             level |-> [level EXCEPT
                 !.orders[back] = INVALID,
                 !.tail = back,
                 !.order_count = level.order_count - 1]]

pop_front(level) ==
    IF level_is_empty(level)
    THEN [handle |-> None, level |-> level]
    ELSE [handle |-> Some(level.orders[level.head]),
          level |-> [level EXCEPT
              !.orders[level.head] = INVALID,
              !.head = (level.head + 1) % MAX_ORDERS_PER_LEVEL,
              !.order_count = level.order_count - 1]]

level_reduce_qty(level, qty) ==
    [level EXCEPT !.total_qty = saturating_sub(level.total_qty, qty)]

\* PriceLevelIter: the handles from head, order_count of them.
level_iter(level) ==
    [pos \in 1..level.order_count |->
        level.orders[(level.head + pos - 1) % MAX_ORDERS_PER_LEVEL]]

\* -------------------------------------------------------------- book.rs
BookSide_new(side) ==
    [levels |-> [i \in 0..(MAX_LEVELS - 1) |-> None],
     best_idx |-> None, side |-> side, order_count |-> 0, total_qty |-> 0]

price_to_idx(price) ==
    IF price < base_price THEN None
    ELSE LET idx == (price - base_price) \div TICK_SIZE
         IN IF idx < MAX_LEVELS THEN Some(idx) ELSE None

idx_to_price(idx) == base_price + idx * TICK_SIZE

\* update_best_after_add keeping whatever best index the side already has.
update_best_after_add_keep_current(s, new_idx) ==
    IF s.best_idx = None THEN [s EXCEPT !.best_idx = Some(new_idx)] ELSE s

update_best_after_add(s, new_idx) ==
    IF s.best_idx = None
    THEN [s EXCEPT !.best_idx = Some(new_idx)]
    ELSE LET current == Unwrap(s.best_idx)
             is_better == IF s.side = "Buy" THEN new_idx > current
                          ELSE new_idx < current
         IN IF is_better THEN [s EXCEPT !.best_idx = Some(new_idx)] ELSE s

add_order(s, handle, order) ==
    LET i == price_to_idx(order.price) IN
    IF i = None THEN [ok |-> FALSE, side |-> s]
    ELSE LET idx == Unwrap(i)
             level == IF IsSome(s.levels[idx]) THEN Unwrap(s.levels[idx])
                      ELSE PriceLevel_new
             r == push_back(level, handle, order.remaining_qty)
         IN IF ~r.ok
            THEN [ok |-> FALSE, side |-> [s EXCEPT !.levels[idx] = Some(level)]]
            ELSE [ok |-> TRUE,
                  side |-> update_best_after_add(
                      [s EXCEPT !.levels[idx] = Some(r.level),
                                !.order_count = s.order_count + 1,
                                !.total_qty = saturating_add(s.total_qty,
                                                             order.remaining_qty)],
                      idx)]

best_level(s) ==
    IF s.best_idx = None THEN None ELSE s.levels[Unwrap(s.best_idx)]

best_price(s) ==
    IF s.best_idx = None THEN None ELSE Some(idx_to_price(Unwrap(s.best_idx)))

would_match(s, price, incoming_side) ==
    IF IsSome(s.best_idx)
    THEN LET bp == idx_to_price(Unwrap(s.best_idx))
         IN IF incoming_side = "Buy" THEN price >= bp ELSE price <= bp
    ELSE FALSE

level_nonempty(s, idx) ==
    IsSome(s.levels[idx]) /\ ~level_is_empty(Unwrap(s.levels[idx]))

find_next_best(s) ==
    IF s.best_idx = None THEN s
    ELSE LET current == Unwrap(s.best_idx) IN
         IF IsSome(s.levels[current]) /\ ~level_is_empty(Unwrap(s.levels[current]))
         THEN s
         ELSE LET cleared == [s EXCEPT !.levels[current] = None]
                  cand == IF s.side = "Buy"
                          THEN {i \in 0..(current - 1) : level_nonempty(cleared, i)}
                          ELSE {i \in (current + 1)..(MAX_LEVELS - 1) :
                                    level_nonempty(cleared, i)}
                  pick == IF s.side = "Buy"
                          THEN CHOOSE i \in cand : \A j \in cand : j <= i
                          ELSE CHOOSE i \in cand : \A j \in cand : i <= j
              IN [cleared EXCEPT !.best_idx = IF cand = {} THEN None ELSE Some(pick)]

side_is_empty(s) == s.best_idx = None
side_reduce_qty(s, qty) == [s EXCEPT !.total_qty = saturating_sub(s.total_qty, qty)]
decrement_order_count(s) ==
    [s EXCEPT !.order_count = saturating_sub(s.order_count, 1)]

OrderBook_new ==
    [bids |-> BookSide_new("Buy"), asks |-> BookSide_new("Sell"), sequence |-> 0]

\* sequence / next_sequence: the book's counter; next_sequence is the only
\* code that writes it, and no function of the engine calls it.
sequence(b) == b.sequence
next_sequence(b) == [b EXCEPT !.sequence = IF @ = U64_MAX THEN 0 ELSE @ + 1]

\* side_mut / side: the field of the book that holds a side.
book_side(book, side) == IF side = "Buy" THEN book.bids ELSE book.asks
set_side(book, side, s) ==
    IF side = "Buy" THEN [book EXCEPT !.bids = s] ELSE [book EXCEPT !.asks = s]

level_at_price(s, price) ==
    LET i == price_to_idx(price) IN IF i = None THEN None ELSE s.levels[Unwrap(i)]

\* ------------------------------------------------------------ engine.rs
NoFills == <<>>

RejectReasons == {"InvalidPrice", "InvalidQuantity", "PoolExhausted", "BookFull",
                  "PostOnlyWouldMatch", "SymbolNotFound", "InsufficientLiquidity"}

\* OrderResult, one record shape for the five variants; the fields a variant
\* does not carry hold "", INVALID, 0 or the empty sequence.
Result(kind, reason, fills, resting_qty, handle, filled) ==
    [kind |-> kind, reason |-> reason, fills |-> fills,
     resting_qty |-> resting_qty, handle |-> handle, filled_qty |-> filled]
Rejected(reason) == Result("Rejected", reason, NoFills, 0, INVALID, 0)

MatchingEngine_new(capacity) ==
    [book |-> OrderBook_new, pool |-> OrderPool_new(capacity), live |-> {},
     dbg_fail |-> FALSE]

can_fill_completely(e, order) ==
    LET opposite_side == IF order.side = "Buy" THEN e.book.asks ELSE e.book.bids
        bp == best_price(opposite_side)
    IN IF IsSome(bp)
       THEN LET crosses == IF order.side = "Buy" THEN order.price >= Unwrap(bp)
                           ELSE order.price <= Unwrap(bp)
                lvl == best_level(opposite_side)
            IN IF crosses /\ IsSome(lvl)
               THEN Unwrap(lvl).total_qty >= order.remaining_qty
               ELSE FALSE
       ELSE FALSE

\* Returns the engine, the taker and Some(fill) or None; `handle` is the maker's
\* handle (INVALID when there is no fill).
match_one_at_best(e, maker_side, taker, exec_price) ==
    LET opposite_book == book_side(e.book, maker_side)
        bl == best_level(opposite_book)
    IN IF bl = None \/ level_is_empty(Unwrap(bl))
       THEN [e |-> e, taker |-> taker, fill |-> None, handle |-> INVALID]
       ELSE
       LET maker_handle == Unwrap(front(Unwrap(bl)))
           maker == pool_get(e, maker_handle)
           fill_qty == Quantity_min(taker.remaining_qty, maker.remaining_qty)
           fill == [maker_order_id |-> maker.order_id,
                    taker_order_id |-> taker.order_id,
                    price |-> exec_price,
                    quantity |-> fill_qty,
                    maker_side |-> maker.side,
                    symbol |-> taker.symbol,
                    timestamp |-> taker.timestamp]
           taker1 == Order_fill(taker, fill_qty)
           e1 == pool_insert(e, maker_handle, Order_fill(maker, fill_qty))
           level1 == level_reduce_qty(Unwrap(bl), fill_qty)
           filled == is_filled(pool_get(e1, maker_handle))
           level2 == IF filled THEN pop_front(level1).level ELSE level1
           e2 == IF filled THEN deallocate(e1, maker_handle) ELSE e1
           ob1 == [opposite_book EXCEPT !.levels[Unwrap(opposite_book.best_idx)] =
                                            Some(level2)]
           ob2 == IF filled THEN decrement_order_count(ob1) ELSE ob1
           ob3 == side_reduce_qty(ob2, fill_qty)
       IN [e |-> [e2 EXCEPT !.book = set_side(e.book, maker_side, ob3)],
           taker |-> taker1, fill |-> Some(fill), handle |-> maker_handle]

\* push_fill that keeps the latest fill in the last place once the ArrayVec is
\* full, instead of dropping it.
push_fill_keep_latest(fills, fill) ==
    IF Len(fills) < MAX_FILLS_PER_ORDER THEN Append(fills, fill)
    ELSE [fills EXCEPT ![MAX_FILLS_PER_ORDER] = fill]

\* fills.push(fill) unless the ArrayVec is full.
push_fill(fills, fill) ==
    IF Len(fills) < MAX_FILLS_PER_ORDER THEN Append(fills, fill) ELSE fills

\* The matching loop. `execs` records every execution of the call, recorded in
\* `fills` or not: the fill, the maker's handle and the engine state before it.
RECURSIVE match_order(_, _, _, _)
match_order(e, order, fills, execs) ==
    IF order.remaining_qty = 0
    THEN [e |-> e, order |-> order, fills |-> fills, execs |-> execs]
    ELSE
    LET opposite_side == IF order.side = "Buy" THEN e.book.asks ELSE e.book.bids
        bp == best_price(opposite_side)
    IN IF bp = None
       THEN [e |-> e, order |-> order, fills |-> fills, execs |-> execs]
       ELSE
       LET crosses == IF order.side = "Buy" THEN order.price >= Unwrap(bp)
                      ELSE order.price <= Unwrap(bp)
       IN IF ~crosses
          THEN [e |-> e, order |-> order, fills |-> fills, execs |-> execs]
          ELSE
          Let(match_one_at_best(e, opposite(order.side), order, Unwrap(bp)),
              LAMBDA r :
              IF IsSome(r.fill)
              THEN match_order(r.e, r.taker, push_fill(fills, Unwrap(r.fill)),
                               Append(execs, [fill |-> Unwrap(r.fill),
                                              handle |-> r.handle,
                                              taker |-> order,
                                              pre |-> e,
                                              post |-> r.e]))
              ELSE match_order(
                       [e EXCEPT !.book = set_side(e.book, opposite(order.side),
                                                   find_next_best(opposite_side))],
                       order, fills, execs))

add_to_book(e, order) ==
    LET a == allocate(e) IN
    IF a.handle = None THEN [e |-> e, handle |-> None]
    ELSE LET handle == Unwrap(a.handle)
             e1 == pool_insert(a.e, handle, order)
             r == add_order(book_side(e1.book, order.side), handle,
                            pool_get(e1, handle))
             e2 == [e1 EXCEPT !.book = set_side(e1.book, order.side, r.side)]
         IN IF r.ok THEN [e |-> e2, handle |-> Some(handle)]
            ELSE [e |-> deallocate(e2, handle), handle |-> None]

\* submit_order after the matching loop (m is what match_order returned).
post_match(m) ==
    IF m.order.remaining_qty = 0
    THEN [e |-> m.e, result |-> Result("Filled", "", m.fills, 0, INVALID, 0),
          execs |-> m.execs]
    ELSE IF m.order.order_type \in {"IOC", "FOK"}
    THEN [e |-> m.e,
          result |-> Result("Cancelled", "", m.fills, 0, INVALID,
                            filled_qty(m.order)),
          execs |-> m.execs]
    ELSE Let(add_to_book(m.e, m.order), LAMBDA a :
         IF IsSome(a.handle)
         THEN IF m.fills = NoFills
              THEN [e |-> a.e,
                    result |-> Result("Resting", "", NoFills, 0, Unwrap(a.handle), 0),
                    execs |-> m.execs]
              ELSE [e |-> a.e,
                    result |-> Result("PartialFill", "", m.fills,
                                      m.order.remaining_qty, Unwrap(a.handle), 0),
                    execs |-> m.execs]
         ELSE [e |-> a.e, result |-> Rejected("PoolExhausted"), execs |-> m.execs])

\* submit_order with the two validation checks in the other order.
submit_order_price_first(e, order0, timestamp) ==
    IF order0.price = 0 /\ order0.order_type /= "IOC"
    THEN [e |-> e, result |-> Rejected("InvalidPrice"), execs |-> <<>>]
    ELSE IF order0.remaining_qty = 0
    THEN [e |-> e, result |-> Rejected("InvalidQuantity"), execs |-> <<>>]
    ELSE post_match(match_order(e, [order0 EXCEPT !.timestamp = timestamp],
                                NoFills, <<>>))

submit_order(e, order0, timestamp) ==
    IF order0.remaining_qty = 0
    THEN [e |-> e, result |-> Rejected("InvalidQuantity"), execs |-> <<>>]
    ELSE IF order0.price = 0 /\ order0.order_type /= "IOC"
    THEN [e |-> e, result |-> Rejected("InvalidPrice"), execs |-> <<>>]
    ELSE
    LET order == [order0 EXCEPT !.timestamp = timestamp]
        opposite_side == book_side(e.book, opposite(order.side))
    IN IF order.order_type = "PostOnly"
          /\ would_match(opposite_side, order.price, order.side)
       THEN [e |-> e, result |-> Rejected("PostOnlyWouldMatch"), execs |-> <<>>]
       ELSE IF order.order_type = "FOK" /\ ~can_fill_completely(e, order)
       THEN [e |-> e, result |-> Rejected("InsufficientLiquidity"), execs |-> <<>>]
       ELSE post_match(match_order(e, order, NoFills, <<>>))

cancel_order(e, handle) ==
    IF ~is_valid(handle) THEN [e |-> e, ret |-> None]
    ELSE
    LET order == pool_get(e, handle)
        s == book_side(e.book, order.side)
        i == price_to_idx(order.price)
        s1 == IF IsSome(level_at_price(s, order.price))
              THEN [s EXCEPT !.levels[Unwrap(i)] =
                       Some(level_reduce_qty(Unwrap(s.levels[Unwrap(i)]),
                                             order.remaining_qty))]
              ELSE s
        s2 == decrement_order_count(side_reduce_qty(s1, order.remaining_qty))
        e1 == [e EXCEPT !.book = set_side(e.book, order.side, s2)]
    IN [e |-> deallocate(e1, handle), ret |-> Some(order)]

pool_stats(e) == <<e.pool.active_count, e.pool.capacity>>

\* ------------------------------------------------- titan-ring/src/lib.rs
\* SpscRing<T, N>: N must be a power of two (new() asserts it).
RingBits == 1
N == 2 ^ RingBits
MASK == N - 1

\* The values a producer publishes, and the content of a slot nobody has
\* written yet (MaybeUninit::uninit()).
RingValues == 2
Values == 1..RingValues
Uninit == 0

SpscRing_new ==
    [write_cursor |-> 0, cached_read |-> 0, read_cursor |-> 0,
     cached_write |-> 0, buffer |-> [i \in 0..MASK |-> Uninit]]

\* a - b on u64, as a release build computes it.
u64_sub(a, b) == IF a >= b THEN a - b ELSE U64_MAX - (b - a) + 1

\* pos & MASK; MASK is N - 1 and N a power of two, so this is pos mod N.
slot_index_zero(pos) == 0
slot_index(pos) == pos % N

\* write_pos - read >= N, the test of try_publish on the cached and on the
\* real read position.
ring_full_off_by_one(write_pos, read) == u64_sub(write_pos, read) > N
ring_full(write_pos, read) == u64_sub(write_pos, read) >= N

\* read_pos >= write, the test of try_consume on the cached and on the real
\* write position.
ring_empty_off_by_one(read_pos, write) == read_pos > write
ring_empty(read_pos, write) == read_pos >= write

\* read_cursor.load(Acquire) in try_publish, write_cursor.load(Acquire) in
\* try_consume and in available.
load_read_cursor_cached(r) == r.cached_read
load_read_cursor_ahead(r) == r.read_cursor + 1
load_read_cursor(r) == r.read_cursor
load_write_cursor_ahead(r) == r.write_cursor + 1
load_write_cursor(r) == r.write_cursor

\* N - (write_pos - read_pos) as usize, the result of remaining_capacity.
remaining_capacity_ignoring_reads(write_pos, read_pos) == u64_sub(N, write_pos)
remaining_capacity_of(write_pos, read_pos) ==
    u64_sub(N, u64_sub(write_pos, read_pos))

\* (write_pos - read_pos) as usize, the result of available.
available_of(write_pos, read_pos) == u64_sub(write_pos, read_pos)

\* The two calls on a ring no thread is writing.
remaining_capacity(r) == remaining_capacity_of(r.write_cursor, load_read_cursor(r))
available(r) == available_of(load_write_cursor(r), r.read_cursor)

\* A producer and a consumer handle between two calls.  pc is the position in
\* the call in flight; tp / tc the outcome of the last try_publish /
\* try_consume that ran to its end, alone or inside publish / consume.
Producer_new ==
    [pc |-> "idle", op |-> "", value |-> Uninit, write_pos |-> 0,
     tp |-> "none", n |-> 0, calls |-> 0,
     refreshed |-> FALSE, saw_full |-> FALSE, pre |-> SpscRing_new]
Consumer_new ==
    [pc |-> "idle", op |-> "", value |-> Uninit, read_pos |-> 0,
     write_pos |-> 0, tc |-> "none", n |-> 0, calls |-> 0,
     refreshed |-> FALSE, saw_empty |-> FALSE, unpublished |-> FALSE]

\* ---------------------------------------------------------- state machine
VARIABLES
    book,       \* MatchingEngine.book: the two BookSides
    pool,       \* MatchingEngine.pool: slots, free_list, capacity, active_count
    live,       \* handles allocated and not yet deallocated
    issued,     \* handles submit_order has returned to the caller so far
    nops,       \* number of calls made; call n carries order id and timestamp n
    last,       \* the last call: its input, its result, the state before it
    ledger,     \* what the caller has seen so far: quantities submitted,
                \* executed, cancelled or discarded per side; ids cancelled
    panicked,   \* a debug_assert! failed (debug build): the engine thread is gone
    env,        \* the caller: the orders it sends, the number of calls it makes
                \* and the pool capacity it built the engine with
    recycle,    \* the pool driven on its own: the handles deallocated and not
                \* allocated again, oldest first, and the last pool call
    ring,       \* SpscRing: the four cursors and the buffer
    producer,   \* the producer thread: its call in flight and its locals
    consumer,   \* the consumer thread: its call in flight and its locals
    history,    \* values try_publish/publish has published and values
                \* try_consume/consume has returned, in order
    client,     \* the two threads' programs: the calls they make, how many
    fifo        \* a PriceLevel driven on its own: the level, the handles pushed
                \* and not popped in push order, and the last call

engine_vars == <<book, pool, live, issued, nops, last, ledger, panicked, env>>
ring_vars == <<ring, producer, consumer, history, client>>
vars == <<book, pool, live, issued, nops, last, ledger, panicked, env,
          recycle, ring, producer, consumer, history, client, fifo>>

\* Prices an incoming order can carry: 0, every tick up to the first price past
\* the level array, and one price between two ticks.
Prices == {0} \cup {TICK_SIZE * k : k \in 1..MAX_LEVELS}
              \cup {TICK_SIZE + (TICK_SIZE \div 2)}
Quantities == 0..MaxQty

\* Any order of the bounded domain, MaxOps calls.
AnyCaller ==
    [sides |-> Sides, types |-> OrderTypes, prices |-> Prices,
     quantities |-> Quantities, calls |-> MaxOps, pool_capacity |-> PoolCapacity]
\* Valid resting orders on the tick grid only, one call more.
RestingCaller ==
    [sides |-> Sides, types |-> {"Limit", "PostOnly"},
     prices |-> {TICK_SIZE, 2 * TICK_SIZE},
     quantities |-> 1..MaxQty, calls |-> MaxOps + 1,
     pool_capacity |-> PoolCapacity]
\* Limit and FOK orders on the tick grid, two calls more.
FokCaller ==
    [sides |-> Sides, types |-> {"Limit", "FOK"},
     prices |-> {TICK_SIZE, 2 * TICK_SIZE},
     quantities |-> 1..MaxQty, calls |-> MaxOps + 2,
     pool_capacity |-> PoolCapacity]
\* A pool larger than a level, orders of quantity 1 and takers large enough to
\* cross more than MAX_FILLS_PER_ORDER of them, one call more.
DeepPoolCaller ==
    [sides |-> Sides, types |-> {"Limit", "PostOnly", "IOC"},
     prices |-> {TICK_SIZE, 2 * TICK_SIZE},
     quantities |-> {1, MAX_FILLS_PER_ORDER + 1}, calls |-> MaxOps + 1,
     pool_capacity |-> 2 * PoolCapacity]

Engine == [book |-> book, pool |-> pool, live |-> live, dbg_fail |-> FALSE]
Snapshot == [book |-> book, pool |-> pool, live |-> live]

NoOrder == Order_new(0, SYMBOL, "Buy", "Limit", 0, 0, 0)
NoResult == Result("", "", NoFills, 0, INVALID, 0)

InitWith(caller) ==
    /\ book = MatchingEngine_new(caller.pool_capacity).book
    /\ pool = MatchingEngine_new(caller.pool_capacity).pool
    /\ live = {}
    /\ issued = {}
    /\ nops = 0
    /\ last = [op |-> "init", order |-> NoOrder, handle |-> INVALID,
               result |-> NoResult, ret |-> None, execs |-> <<>>,
               pre |-> [book |-> MatchingEngine_new(caller.pool_capacity).book,
                        pool |-> MatchingEngine_new(caller.pool_capacity).pool,
                        live |-> {}]]
    /\ ledger = [submitted |-> [s \in Sides |-> 0],
                 executed |-> [s \in Sides |-> 0],
                 gone |-> [s \in Sides |-> 0],
                 cancelled |-> {},
                 truncated |-> FALSE]
    /\ panicked = FALSE
    /\ env = caller

\* Nothing deallocated yet.
InitRecycle ==
    recycle = [freed |-> <<>>, op |-> "init", handle |-> None, before |-> <<>>]

\* SpscRing::new() and split(): both handles idle, nothing published.
InitRingWith(c) ==
    /\ ring = SpscRing_new
    /\ producer = Producer_new
    /\ consumer = Consumer_new
    /\ history = [published |-> <<>>, consumed |-> <<>>]
    /\ client = c

\* A client whose threads make no call.
NoClient ==
    [producer_ops |-> {}, consumer_ops |-> {}, values |-> {},
     producer_calls |-> 0, consumer_calls |-> 0]

\* PriceLevel::new(): nothing pushed yet.
InitFifo ==
    fifo = [level |-> PriceLevel_new, queue |-> <<>>, pushes |-> 0, pops |-> 0,
            op |-> "init", ok |-> FALSE, handle |-> None,
            pre |-> PriceLevel_new, pre_queue |-> <<>>]

InitEngine(caller) ==
    InitWith(caller) /\ InitRecycle /\ InitRingWith(NoClient) /\ InitFifo

Init == InitEngine(AnyCaller)

IncomingOrder(side, order_type, price, qty) ==
    Order_new(nops + 1, SYMBOL, side, order_type, price, qty, 0)

RECURSIVE SumQty(_)
SumQty(execs) ==
    IF execs = <<>> THEN 0 ELSE Head(execs).fill.quantity + SumQty(Tail(execs))

\* The caller's books after submit_order(order) returned r.
LedgerAfterSubmit(order, r) ==
    LET q == SumQty(r.execs)
        accepted == r.result.kind /= "Rejected"
    IN [ledger EXCEPT
          !.submitted[order.side] = @ + (IF accepted THEN order.original_qty ELSE 0),
          !.executed = [s \in Sides |-> ledger.executed[s] + q],
          !.gone[order.side] = @ + (IF r.result.kind = "Cancelled"
                                    THEN order.original_qty - r.result.filled_qty
                                    ELSE 0),
          !.truncated = @ \/ Len(r.execs) > MAX_FILLS_PER_ORDER]

\* The caller's books after cancel_order(handle) returned r.
LedgerAfterCancel(handle, r) ==
    IF r.ret = None THEN ledger
    ELSE [ledger EXCEPT
            !.gone[Unwrap(r.ret).side] = @ + Unwrap(r.ret).remaining_qty,
            !.cancelled = IF handle \in live
                          THEN @ \cup {Unwrap(r.ret).order_id} ELSE @]

SubmitReturns(order, r) ==
    /\ book' = r.e.book
    /\ pool' = r.e.pool
    /\ live' = r.e.live
    /\ issued' = IF r.result.kind \in {"Resting", "PartialFill"}
                 THEN issued \cup {r.result.handle} ELSE issued
    /\ last' = [op |-> "submit", order |-> order, handle |-> INVALID,
                result |-> r.result, ret |-> None, execs |-> r.execs,
                pre |-> Snapshot]
    /\ ledger' = LedgerAfterSubmit(order, r)
    /\ nops' = nops + 1
    /\ UNCHANGED <<panicked, env, recycle, ring_vars, fifo>>

CancelReturns(handle, r) ==
    /\ book' = r.e.book
    /\ pool' = r.e.pool
    /\ live' = r.e.live
    /\ last' = [op |-> "cancel", order |-> NoOrder, handle |-> handle,
                result |-> NoResult, ret |-> r.ret, execs |-> <<>>,
                pre |-> Snapshot]
    /\ ledger' = LedgerAfterCancel(handle, r)
    /\ nops' = nops + 1
    /\ UNCHANGED <<issued, panicked, env, recycle, ring_vars, fifo>>

\* submit_order(order, timestamp) returns without a failed debug assertion.
SubmitOrder ==
    /\ ~panicked
    /\ nops < env.calls
    /\ \E side \in env.sides, order_type \in env.types, price \in env.prices,
          qty \in env.quantities :
        \E order \in {IncomingOrder(side, order_type, price, qty)} :
        \E r \in {submit_order(Engine, order, nops + 1)} :
           ~r.e.dbg_fail /\ SubmitReturns(order, r)

\* cancel_order(handle) for a handle the caller can hold: INVALID or one that a
\* submit_order returned, whatever became of its order since.
CancelOrder ==
    /\ ~panicked
    /\ nops < env.calls
    /\ \E handle \in issued \cup {INVALID} :
        \E r \in {cancel_order(Engine, handle)} :
           ~r.e.dbg_fail /\ CancelReturns(handle, r)

\* A release build (debug assertions and overflow checks compiled out): the
\* call that would trip one runs to its end.
SubmitOrderUnchecked ==
    /\ ~panicked
    /\ nops < env.calls
    /\ \E side \in env.sides, order_type \in env.types, price \in env.prices,
          qty \in env.quantities :
        \E order \in {IncomingOrder(side, order_type, price, qty)} :
        \E r \in {submit_order(Engine, order, nops + 1)} :
           r.e.dbg_fail /\ SubmitReturns(order, r)

CancelOrderUnchecked ==
    /\ ~panicked
    /\ nops < env.calls
    /\ \E handle \in issued :
        \E r \in {cancel_order(Engine, handle)} :
           r.e.dbg_fail /\ CancelReturns(handle, r)

\* A debug build: the same call panics at the failed debug_assert! instead.
DebugPanic ==
    /\ ~panicked
    /\ nops < env.calls
    /\ \/ \E side \in env.sides, order_type \in env.types, price \in env.prices,
            qty \in env.quantities :
            submit_order(Engine, IncomingOrder(side, order_type, price, qty),
                         nops + 1).e.dbg_fail
       \/ \E handle \in issued : cancel_order(Engine, handle).e.dbg_fail
    /\ panicked' = TRUE
    /\ last' = [op |-> "panic", order |-> NoOrder, handle |-> INVALID,
                result |-> NoResult, ret |-> None, execs |-> <<>>,
                pre |-> Snapshot]
    /\ nops' = nops + 1
    /\ UNCHANGED <<book, pool, live, issued, ledger, env, recycle, ring_vars, fifo>>

Next ==
    \/ SubmitOrder
    \/ CancelOrder
    \/ SubmitOrderUnchecked
    \/ CancelOrderUnchecked
    \/ DebugPanic

Spec == Init /\ [][Next]_vars

\* The same engine driven by RestingCaller.
SpecResting == InitEngine(RestingCaller) /\ [][Next]_vars

\* The same engine driven by FokCaller.
SpecFok == InitEngine(FokCaller) /\ [][Next]_vars

\* The same engine with the larger pool, driven by DeepPoolCaller.
SpecDeepPool == InitEngine(DeepPoolCaller) /\ [][Next]_vars

\* ------------------------------------------------- the pool on its own
\* allocate() and deallocate(handle) called directly on the pool, deallocate
\* only with a live handle (its safety contract).
RemoveHandle(q, h) == SelectSeq(q, LAMBDA x : x /= h)

PoolAllocate ==
    \E r \in {allocate(Engine)} :
        /\ pool' = r.e.pool
        /\ live' = r.e.live
        /\ recycle' = [freed |-> IF r.handle = None THEN recycle.freed
                                 ELSE RemoveHandle(recycle.freed, Unwrap(r.handle)),
                       op |-> "allocate", handle |-> r.handle,
                       before |-> recycle.freed]
        /\ UNCHANGED <<book, issued, nops, last, ledger, panicked, env, ring_vars, fifo>>

PoolDeallocate ==
    \E handle \in live :
        \E e \in {deallocate(Engine, handle)} :
            /\ pool' = e.pool
            /\ live' = e.live
            /\ recycle' = [freed |-> Append(recycle.freed, handle),
                           op |-> "deallocate", handle |-> Some(handle),
                           before |-> recycle.freed]
            /\ UNCHANGED <<book, issued, nops, last, ledger, panicked, env,
                           ring_vars, fifo>>

NextPool ==
    \/ PoolAllocate
    \/ PoolDeallocate

\* A pool of 2 * PoolCapacity slots, no engine call.
InitPool == InitEngine(DeepPoolCaller)
SpecPool == InitPool /\ [][NextPool]_vars

\* ------------------------------------------- a price level on its own
\* push_back(handle, qty) and pop_front() called directly on one PriceLevel,
\* MaxLevelPushes pushes at most.
MaxLevelPushes == 4
PushedHandles == 0..2

LevelUnchanged == UNCHANGED <<engine_vars, recycle, ring_vars>>

LevelPushBack ==
    /\ fifo.pushes < MaxLevelPushes
    /\ \E handle \in PushedHandles, qty \in 1..MaxQty :
        \E r \in {push_back(fifo.level, handle, qty)} :
            fifo' = [level |-> r.level,
                     queue |-> IF r.ok THEN Append(fifo.queue, handle)
                               ELSE fifo.queue,
                     pushes |-> fifo.pushes + 1,
                     pops |-> fifo.pops,
                     op |-> "push_back", ok |-> r.ok, handle |-> Some(handle),
                     pre |-> fifo.level, pre_queue |-> fifo.queue]
    /\ LevelUnchanged

LevelPopFront ==
    /\ \E r \in {pop_front(fifo.level)} :
            fifo' = [level |-> r.level,
                     queue |-> IF fifo.queue = <<>> THEN <<>> ELSE Tail(fifo.queue),
                     pushes |-> fifo.pushes,
                     pops |-> fifo.pops + (IF r.handle = None THEN 0 ELSE 1),
                     op |-> "pop_front", ok |-> r.handle /= None,
                     handle |-> r.handle,
                     pre |-> fifo.level, pre_queue |-> fifo.queue]
    /\ LevelUnchanged

NextLevel ==
    \/ LevelPushBack
    \/ LevelPopFront

InitLevel == InitEngine(AnyCaller)
SpecLevel == InitLevel /\ [][NextLevel]_vars

\* ------------------------------------------- the ring and its two threads
\* Calls of one producer thread and one consumer thread, interleaved at every
\* access to the ring's memory.  Each thread makes a bounded number of calls.
MaxRingCalls == 2
RingClient ==
    [producer_ops |-> {"try_publish", "publish", "remaining_capacity"},
     consumer_ops |-> {"try_consume", "consume", "available"},
     values |-> Values,
     producer_calls |-> N + MaxRingCalls, consumer_calls |-> N + MaxRingCalls]

RingUnchanged == UNCHANGED <<engine_vars, recycle, client, fifo>>

\* The producer thread enters try_publish(value), publish(value) or
\* remaining_capacity().
ProducerCall ==
    /\ producer.pc = "idle"
    /\ producer.calls < client.producer_calls
    /\ \E op \in client.producer_ops, value \in client.values :
          producer' = [producer EXCEPT
                         !.pc = IF op = "remaining_capacity" THEN "rc_write"
                                ELSE "load",
                         !.op = op,
                         !.value = IF op = "remaining_capacity" THEN Uninit
                                   ELSE value,
                         !.tp = "none",
                         !.calls = @ + 1]
    /\ UNCHANGED <<ring, consumer, history>>
    /\ RingUnchanged

\* try_publish, lines 111-115: load write_cursor and cached_read (both written
\* by the producer only) and test the cached read position.
TryPublishLoad ==
    /\ producer.pc = "load"
    /\ producer' = [producer EXCEPT
                      !.write_pos = ring.write_cursor,
                      !.tp = "none",
                      !.refreshed = FALSE,
                      !.saw_full = FALSE,
                      !.pre = ring,
                      !.pc = IF ring_full(ring.write_cursor, ring.cached_read)
                             THEN "refresh" ELSE "write"]
    /\ UNCHANGED <<ring, consumer, history>>
    /\ RingUnchanged

\* try_publish, lines 117-122: load the real read cursor, store it in
\* cached_read, return false if the ring is full.
TryPublishRefresh ==
    /\ producer.pc = "refresh"
    /\ \E current_read \in {load_read_cursor(ring)} :
          /\ ring' = [ring EXCEPT !.cached_read = current_read]
          /\ producer' = [producer EXCEPT
                            !.refreshed = TRUE,
                            !.saw_full = (ring.write_cursor - ring.read_cursor = N),
                            !.tp = IF ring_full(producer.write_pos, current_read)
                                   THEN "false" ELSE "none",
                            !.pc = IF ring_full(producer.write_pos, current_read)
                                   THEN (IF producer.op = "publish" THEN "spin"
                                         ELSE "idle")
                                   ELSE "write"]
    /\ UNCHANGED <<consumer, history>>
    /\ RingUnchanged

\* try_publish, lines 126-130: write the value into the slot.
TryPublishWrite ==
    /\ producer.pc = "write"
    /\ ring' = [ring EXCEPT !.buffer[slot_index(producer.write_pos)] = producer.value]
    /\ producer' = [producer EXCEPT !.pc = "store"]
    /\ UNCHANGED <<consumer, history>>
    /\ RingUnchanged

\* try_publish, lines 133-135: store write_pos + 1 in write_cursor and return
\* true (publish returns with it).
TryPublishStore ==
    /\ producer.pc = "store"
    /\ ring' = [ring EXCEPT !.write_cursor = producer.write_pos + 1]
    /\ producer' = [producer EXCEPT !.pc = "idle", !.tp = "true"]
    /\ history' = [history EXCEPT !.published = Append(@, producer.value)]
    /\ UNCHANGED consumer
    /\ RingUnchanged

\* publish, lines 141-143: try_publish returned false, spin and try again.
PublishSpin ==
    /\ producer.pc = "spin"
    /\ producer' = [producer EXCEPT !.pc = "load"]
    /\ UNCHANGED <<ring, consumer, history>>
    /\ RingUnchanged

\* remaining_capacity, line 157.
RemainingCapacityLoadWrite ==
    /\ producer.pc = "rc_write"
    /\ producer' = [producer EXCEPT !.write_pos = ring.write_cursor,
                                    !.pc = "rc_read"]
    /\ UNCHANGED <<ring, consumer, history>>
    /\ RingUnchanged

\* remaining_capacity, lines 158-159.
RemainingCapacityLoadRead ==
    /\ producer.pc = "rc_read"
    /\ producer' = [producer EXCEPT
                      !.n = remaining_capacity_of(producer.write_pos,
                                                  load_read_cursor(ring)),
                      !.pc = "idle"]
    /\ UNCHANGED <<ring, consumer, history>>
    /\ RingUnchanged

\* The consumer thread enters try_consume(), consume() or available().
ConsumerCall ==
    /\ consumer.pc = "idle"
    /\ consumer.calls < client.consumer_calls
    /\ \E op \in client.consumer_ops :
          consumer' = [consumer EXCEPT
                         !.pc = IF op = "available" THEN "av_write" ELSE "load",
                         !.op = op,
                         !.value = Uninit,
                         !.tc = "none",
                         !.calls = @ + 1]
    /\ UNCHANGED <<ring, producer, history>>
    /\ RingUnchanged

\* try_consume, lines 174-178: load read_cursor and cached_write (both written
\* by the consumer only) and test the cached write position.
TryConsumeLoad ==
    /\ consumer.pc = "load"
    /\ consumer' = [consumer EXCEPT
                      !.read_pos = ring.read_cursor,
                      !.tc = "none",
                      !.value = Uninit,
                      !.refreshed = FALSE,
                      !.saw_empty = FALSE,
                      !.unpublished = FALSE,
                      !.pc = IF ring_empty(ring.read_cursor, ring.cached_write)
                             THEN "refresh" ELSE "read"]
    /\ UNCHANGED <<ring, producer, history>>
    /\ RingUnchanged

\* try_consume, lines 180-185: load the real write cursor, store it in
\* cached_write, return None if the ring is empty.
TryConsumeRefresh ==
    /\ consumer.pc = "refresh"
    /\ \E current_write \in {load_write_cursor(ring)} :
          /\ ring' = [ring EXCEPT !.cached_write = current_write]
          /\ consumer' = [consumer EXCEPT
                            !.refreshed = TRUE,
                            !.saw_empty = (ring.read_cursor = ring.write_cursor),
                            !.tc = IF ring_empty(consumer.read_pos, current_write)
                                   THEN "absent" ELSE "none",
                            !.pc = IF ring_empty(consumer.read_pos, current_write)
                                   THEN (IF consumer.op = "consume" THEN "spin"
                                         ELSE "idle")
                                   ELSE "read"]
    /\ UNCHANGED <<producer, history>>
    /\ RingUnchanged

\* What assume_init_read() can yield for slot idx: the slot's value; any value
\* if the slot was never written or the producer is writing it right now.
SlotRead(idx) ==
    IF \/ ring.buffer[idx] = Uninit
       \/ (producer.pc = "write" /\ slot_index(producer.write_pos) = idx)
    THEN Values
    ELSE {ring.buffer[idx]}

\* try_consume, lines 189-193: read the value out of the slot.
TryConsumeRead ==
    /\ consumer.pc = "read"
    /\ \E value \in SlotRead(slot_index(consumer.read_pos)) :
          consumer' = [consumer EXCEPT
                         !.value = value,
                         !.unpublished = (consumer.read_pos >= ring.write_cursor),
                         !.pc = "store"]
    /\ UNCHANGED <<ring, producer, history>>
    /\ RingUnchanged

\* try_consume, lines 196-198: store read_pos + 1 in read_cursor and return
\* Some(value) (consume returns the value with it).
TryConsumeStore ==
    /\ consumer.pc = "store"
    /\ ring' = [ring EXCEPT !.read_cursor = consumer.read_pos + 1]
    /\ consumer' = [consumer EXCEPT !.pc = "idle", !.tc = "some"]
    /\ history' = [history EXCEPT !.consumed = Append(@, consumer.value)]
    /\ UNCHANGED producer
    /\ RingUnchanged

\* consume, lines 204-209: try_consume returned None, spin and try again.
ConsumeSpin ==
    /\ consumer.pc = "spin"
    /\ consumer' = [consumer EXCEPT !.pc = "load"]
    /\ UNCHANGED <<ring, producer, history>>
    /\ RingUnchanged

\* available, line 233.
AvailableLoadWrite ==
    /\ consumer.pc = "av_write"
    /\ consumer' = [consumer EXCEPT !.write_pos = load_write_cursor(ring),
                                    !.pc = "av_read"]
    /\ UNCHANGED <<ring, producer, history>>
    /\ RingUnchanged

\* available, lines 234-235.
AvailableLoadRead ==
    /\ consumer.pc = "av_read"
    /\ consumer' = [consumer EXCEPT
                      !.n = available_of(consumer.write_pos, ring.read_cursor),
                      !.pc = "idle"]
    /\ UNCHANGED <<ring, producer, history>>
    /\ RingUnchanged

ProducerNext ==
    \/ ProducerCall
    \/ TryPublishLoad
    \/ TryPublishRefresh
    \/ TryPublishWrite
    \/ TryPublishStore
    \/ PublishSpin
    \/ RemainingCapacityLoadWrite
    \/ RemainingCapacityLoadRead

ConsumerNext ==
    \/ ConsumerCall
    \/ TryConsumeLoad
    \/ TryConsumeRefresh
    \/ TryConsumeRead
    \/ TryConsumeStore
    \/ ConsumeSpin
    \/ AvailableLoadWrite
    \/ AvailableLoadRead

NextRing ==
    \/ ProducerNext
    \/ ConsumerNext

InitRing ==
    InitWith(AnyCaller) /\ InitRecycle /\ InitRingWith(RingClient) /\ InitFifo

\* Any interleaving of the two threads.
SpecRing == InitRing /\ [][NextRing]_vars

\* The same threads with one call less each, under fair scheduling: a thread
\* that can take a step is not suspended for ever.
FairRingClient ==
    [RingClient EXCEPT !.producer_calls = @ - 1, !.consumer_calls = @ - 1]
InitRingFair ==
    InitWith(AnyCaller) /\ InitRecycle /\ InitRingWith(FairRingClient)
        /\ InitFifo
SpecRingFair ==
    InitRingFair /\ [][NextRing]_vars
        /\ WF_vars(ProducerNext) /\ WF_vars(ConsumerNext)

\* ------------------------------------------------------------ properties
\* The handles a side's level queues hold, and those of the whole book.
SideHandles(s) ==
    UNION {{level_iter(Unwrap(s.levels[i]))[k] :
                k \in 1..Unwrap(s.levels[i]).order_count} :
           i \in {j \in 0..(MAX_LEVELS - 1) : IsSome(s.levels[j])}}
QueuedHandles(b) == SideHandles(b.bids) \cup SideHandles(b.asks)

\* The order stored in slot h of pool p.
OrderAt(p, h) == Unwrap(p.orders[h])

\* What a caller can observe of a side and of the book.
SideView(s) ==
    [best_price |-> best_price(s), is_empty |-> side_is_empty(s),
     order_count |-> s.order_count, total_qty |-> s.total_qty,
     queues |-> [i \in 0..(MAX_LEVELS - 1) |->
                    IF IsSome(s.levels[i]) THEN level_iter(Unwrap(s.levels[i]))
                    ELSE <<>>]]
BookView(b, p) ==
    [bids |-> SideView(b.bids), asks |-> SideView(b.asks),
     active |-> p.active_count]

RECURSIVE SumRemaining(_, _)
SumRemaining(p, hs) ==
    IF hs = {} THEN 0
    ELSE LET h == CHOOSE x \in hs : TRUE
         IN OrderAt(p, h).remaining_qty + SumRemaining(p, hs \ {h})
\* Quantity still resting on a side: the live orders of that side.
RestingQty(side) ==
    SumRemaining(pool, {h \in live : OrderAt(pool, h).side = side})

\* p is a strictly better price than q for an order resting on `side`.
Better(side, p, q) == IF side = "Sell" THEN p < q ELSE p > q

\* C1: after cancel_order(h) returned the order of a live resting handle h, h is
\* in no price-level queue, and no submit_order executes a fill whose maker is
\* an order that was cancelled.
C1_CancelledNeverMatched ==
    /\ (last.op = "cancel" /\ last.ret /= None /\ last.handle \in last.pre.live
            /\ last.handle \in QueuedHandles(last.pre.book))
          => last.handle \notin QueuedHandles(book)
    /\ last.op = "submit"
          => \A k \in 1..Len(last.execs) :
                last.execs[k].fill.maker_order_id \notin ledger.cancelled

\* C2: cancel_order(h) for a handle that is not live (INVALID, already
\* cancelled, or already filled and deallocated) returns None and leaves the
\* book and the pool as they were.
C2_CancelNotLiveIsNoOp ==
    (last.op = "cancel" /\ last.handle \notin last.pre.live)
        => /\ last.ret = None
           /\ book = last.pre.book
           /\ pool = last.pre.pool

\* C3: a Limit submit that rests without crossing, followed by cancel_order of
\* the returned handle, leaves every side's best price, emptiness, order_count,
\* total_qty and level queues, and the pool's active count, as before the submit.
C3_SubmitCancelRoundTrip ==
    [][(/\ last.op = "submit"
        /\ last.order.order_type = "Limit"
        /\ last.result.kind = "Resting"
        /\ last'.op = "cancel"
        /\ last'.handle = last.result.handle)
          => BookView(book', pool') = BookView(last.pre.book, last.pre.pool)]_vars

\* C4: a submit_order that returns Rejected executed no fill and left the book,
\* the free stack, the active count and every live order as before the call.
C4_RejectLeavesStateUnchanged ==
    (last.op = "submit" /\ last.result.kind = "Rejected")
        => /\ last.execs = <<>>
           /\ book = last.pre.book
           /\ pool.free_list = last.pre.pool.free_list
           /\ pool.active_count = last.pre.pool.active_count
           /\ live = last.pre.live
           /\ \A h \in live : pool.orders[h] = last.pre.pool.orders[h]

\* C5: as long as no call executed more than MAX_FILLS_PER_ORDER fills, per side
\* the executed quantity equals the quantity submitted by accepted orders minus
\* the quantity still resting minus the unfilled quantity cancelled or discarded.
C5_QuantityConservation ==
    ~ledger.truncated
        => \A s \in Sides :
              ledger.executed[s] = ledger.submitted[s] - RestingQty(s) - ledger.gone[s]

\* C6: every fill is against the earliest-submitted order still resting in the
\* level it executes at, and a maker left partially filled is still at the head
\* of its level after the call.
C6_TimePriority ==
    last.op = "submit"
        => \A k \in 1..Len(last.execs) :
            LET x == last.execs[k]
                maker_side == opposite(x.taker.side)
                q == level_iter(Unwrap(best_level(book_side(x.pre.book, maker_side))))
                resting == {q[j] : j \in 1..Len(q)} \cap x.pre.live
            IN /\ x.handle \in resting
               /\ \A h \in resting : OrderAt(x.pre.pool, x.handle).order_id
                                        <= OrderAt(x.pre.pool, h).order_id
               /\ x.fill.quantity < OrderAt(x.pre.pool, x.handle).remaining_qty
                    => LET bl == best_level(book_side(book, maker_side))
                       IN bl /= None /\ front(Unwrap(bl)) = Some(x.handle)

\* C7: a maker is matched only when no order rests on its side at a strictly
\* better price than its own, and within one call the fill prices are
\* non-decreasing for a buy taker and non-increasing for a sell taker.
C7_PricePriority ==
    last.op = "submit"
        => /\ \A k \in 1..Len(last.execs) :
                LET x == last.execs[k]
                    maker_side == opposite(x.taker.side)
                    maker == OrderAt(x.pre.pool, x.handle)
                IN \A h \in SideHandles(book_side(x.pre.book, maker_side))
                                \cap x.pre.live :
                      ~Better(maker_side, OrderAt(x.pre.pool, h).price, maker.price)
           /\ \A k \in 1..(Len(last.execs) - 1) :
                IF last.order.side = "Buy"
                THEN last.execs[k].fill.price <= last.execs[k + 1].fill.price
                ELSE last.execs[k].fill.price >= last.execs[k + 1].fill.price

\* C8: every fill's price is the limit price of the maker order it executes
\* against.
C8_FillAtMakerPrice ==
    last.op = "submit"
        => \A k \in 1..Len(last.execs) :
              last.execs[k].fill.price
                  = OrderAt(last.execs[k].pre.pool, last.execs[k].handle).price

\* Every level of the side is empty: the side holds no resting order.
SideHoldsNoOrder(s) ==
    \A i \in 0..(MAX_LEVELS - 1) :
        IsSome(s.levels[i]) => level_is_empty(Unwrap(s.levels[i]))

\* C9: after every submit_order and cancel_order, a side's best_idx is absent
\* (is_empty() true, best_price() None) iff the side holds no resting order.
C9_BestAbsentIffEmpty ==
    last.op \in {"submit", "cancel"}
        => \A side \in Sides :
              LET s == book_side(book, side)
              IN /\ side_is_empty(s) <=> SideHoldsNoOrder(s)
                 /\ (best_price(s) = None) <=> SideHoldsNoOrder(s)

\* C10: a PostOnly submit returns Resting or Rejected only, executes no fill,
\* and changes no resting order's remaining quantity.
C10_PostOnlyNeverExecutes ==
    (last.op = "submit" /\ last.order.order_type = "PostOnly")
        => /\ last.result.kind \in {"Resting", "Rejected"}
           /\ last.execs = <<>>
           /\ \A h \in last.pre.live \cap QueuedHandles(last.pre.book) :
                 OrderAt(pool, h).remaining_qty
                     = OrderAt(last.pre.pool, h).remaining_qty

\* p, the price of an incoming order on `side`, crosses the resting price q.
Crosses(side, p, q) == IF side = "Buy" THEN p >= q ELSE p <= q

\* The orders resting on `side` in book b: queued on that side and live in p.
RestingOn(b, p, live_set, side) ==
    {h \in SideHandles(book_side(b, side)) \cap live_set : OrderAt(p, h).side = side}

\* An incoming order at `price` on `side` crosses a resting order of the
\* opposite side (equivalently: that side holds a resting order and the price
\* crosses the best resting price).
CrossesResting(b, p, live_set, price, side) ==
    \E h \in RestingOn(b, p, live_set, opposite(side)) :
        Crosses(side, price, OrderAt(p, h).price)

\* C11: in every reachable state would_match(p, side) is true iff the opposite
\* side holds a resting order whose price p crosses, and a PostOnly order is
\* rejected with PostOnlyWouldMatch iff such a resting order exists.
C11_WouldMatchIffCrosses ==
    /\ \A side \in Sides, p \in Prices :
          would_match(book_side(book, opposite(side)), p, side)
              <=> CrossesResting(book, pool, live, p, side)
    /\ (last.op = "submit" /\ last.order.order_type = "PostOnly"
            /\ last.order.remaining_qty > 0 /\ last.order.price > 0)
          => (last.result = Rejected("PostOnlyWouldMatch")
                <=> CrossesResting(last.pre.book, last.pre.pool, last.pre.live,
                                   last.order.price, last.order.side))

\* The last call was submit_order of an order that passes validation.
ValidSubmit == last.op = "submit" /\ last.order.remaining_qty > 0
                  /\ (last.order.price > 0 \/ last.order.order_type = "IOC")

\* C12: a FOK order that passes validation is either rejected with
\* InsufficientLiquidity, the book and the pool unchanged, or Filled with
\* executed quantity equal to its quantity; never Cancelled after a fill.
C12_FokAllOrNothing ==
    (ValidSubmit /\ last.order.order_type = "FOK")
        => \/ /\ last.result = Rejected("InsufficientLiquidity")
              /\ last.execs = <<>>
              /\ book = last.pre.book
              /\ pool = last.pre.pool
           \/ /\ last.result.kind = "Filled"
              /\ SumQty(last.execs) = last.order.original_qty

\* The resting orders queued at level i of `side`, and the levels that hold
\* at least one.
RestingAt(b, p, live_set, side, i) ==
    LET lv == book_side(b, side).levels[i]
    IN IF lv = None THEN {}
       ELSE {h \in {level_iter(Unwrap(lv))[k] : k \in 1..Unwrap(lv).order_count}
                     \cap live_set : OrderAt(p, h).side = side}
HoldingLevels(b, p, live_set, side) ==
    {i \in 0..(MAX_LEVELS - 1) : RestingAt(b, p, live_set, side, i) /= {}}
\* The best-priced of them: the highest index for bids, the lowest for asks.
BestHoldingLevel(b, p, live_set, side) ==
    LET ls == HoldingLevels(b, p, live_set, side)
    IN IF side = "Buy" THEN CHOOSE i \in ls : \A j \in ls : j <= i
       ELSE CHOOSE i \in ls : \A j \in ls : i <= j

\* C13: a valid FOK order is Filled whenever the best-priced level that holds
\* resting orders on the opposite side crosses its price and the quantity
\* resting at that level is at least its quantity.
C13_FokFilledWhenBestLevelSuffices ==
    (ValidSubmit /\ last.order.order_type = "FOK")
        => LET maker_side == opposite(last.order.side)
               pre == last.pre
           IN (/\ HoldingLevels(pre.book, pre.pool, pre.live, maker_side) /= {}
               /\ LET i == BestHoldingLevel(pre.book, pre.pool, pre.live, maker_side)
                  IN /\ Crosses(last.order.side, last.order.price, idx_to_price(i))
                     /\ SumRemaining(pre.pool,
                                     RestingAt(pre.book, pre.pool, pre.live,
                                               maker_side, i))
                           >= last.order.original_qty)
                 => last.result.kind = "Filled"

\* C14: an IOC or FOK order never rests: the result is not Resting or
\* PartialFill, the pool's active count has not increased, the order's own side
\* of the book is unchanged, and a Cancelled result reports the executed
\* quantity, which is 0 when no resting order was crossed.
C14_IocFokNeverRest ==
    (ValidSubmit /\ last.order.order_type \in {"IOC", "FOK"})
        => /\ last.result.kind \in {"Filled", "Cancelled", "Rejected"}
           /\ pool.active_count <= last.pre.pool.active_count
           /\ book_side(book, last.order.side)
                 = book_side(last.pre.book, last.order.side)
           /\ last.result.kind = "Cancelled"
                 => /\ last.result.filled_qty = SumQty(last.execs)
                    /\ last.result.filled_qty < last.order.original_qty
                    /\ ~CrossesResting(last.pre.book, last.pre.pool, last.pre.live,
                                       last.order.price, last.order.side)
                          => last.result.filled_qty = 0

\* The handle last queued at the level of `price` on `side` of book b.
TailOfLevel(b, side, price) ==
    LET lv == level_at_price(book_side(b, side), price)
    IN IF lv = None \/ level_is_empty(Unwrap(lv)) THEN None
       ELSE Some(level_iter(Unwrap(lv))[Unwrap(lv).order_count])

\* C15: for a valid Limit order the result is Filled iff the executed quantity
\* equals the order quantity; otherwise Resting when nothing executed and
\* PartialFill when something did, with a handle of a live pool order queued at
\* the tail of the level of its price and resting_qty equal to the quantity
\* minus the executed quantity and to the stored order's remaining_qty.
C15_LimitResult ==
    (ValidSubmit /\ last.order.order_type = "Limit")
        => LET executed == SumQty(last.execs)
               r == last.result
           IN /\ r.kind = "Filled" <=> executed = last.order.original_qty
              /\ executed < last.order.original_qty
                    => r.kind = IF executed = 0 THEN "Resting" ELSE "PartialFill"
              /\ r.kind \in {"Resting", "PartialFill"}
                    => /\ r.handle \in live
                       /\ OrderAt(pool, r.handle).order_id = last.order.order_id
                       /\ TailOfLevel(book, last.order.side, last.order.price)
                             = Some(r.handle)
                       /\ OrderAt(pool, r.handle).remaining_qty
                             = last.order.original_qty - executed
                       /\ r.kind = "PartialFill"
                             => r.resting_qty = last.order.original_qty - executed

\* C16: submit_order returns Rejected(InvalidQuantity) for every order of
\* quantity 0, whatever its price and type, and Rejected(InvalidPrice) for every
\* other order of price 0 that is not IOC; an IOC of price 0 and non-zero
\* quantity is not rejected by validation and goes through matching.
C16_Validation ==
    last.op = "submit"
        => /\ last.order.remaining_qty = 0
                => last.result = Rejected("InvalidQuantity")
           /\ (last.order.remaining_qty > 0 /\ last.order.price = 0
                   /\ last.order.order_type /= "IOC")
                => last.result = Rejected("InvalidPrice")
           /\ (last.order.remaining_qty > 0 /\ last.order.price = 0
                   /\ last.order.order_type = "IOC")
                => /\ last.result.kind \in {"Filled", "Cancelled"}
                   /\ last.result.kind = "Filled"
                         => SumQty(last.execs) = last.order.original_qty
                   /\ last.result.kind = "Cancelled"
                         => last.result.filled_qty = SumQty(last.execs)

\* A zero-quantity order whose price is zero too was rejected for its quantity.
C16_Witness ==
    /\ last.op = "submit"
    /\ last.order.remaining_qty = 0
    /\ last.order.price = 0
    /\ last.order.order_type /= "IOC"
    /\ last.result = Rejected("InvalidQuantity")

\* The last call submitted a valid Limit or PostOnly order that was left with a
\* remainder to rest: not filled, and not refused as a crossing PostOnly.
WouldRest ==
    /\ ValidSubmit
    /\ last.order.order_type \in {"Limit", "PostOnly"}
    /\ last.result.kind /= "Filled"
    /\ last.result /= Rejected("PostOnlyWouldMatch")

\* C17: a Limit or PostOnly order that would rest at a price whose level
\* already holds MAX_ORDERS_PER_LEVEL orders is returned as Rejected(BookFull).
C17_FullLevelRejectsBookFull ==
    LET lv == level_at_price(book_side(last.pre.book, last.order.side),
                             last.order.price)
    IN (WouldRest /\ lv /= None /\ level_is_full(Unwrap(lv)))
          => last.result = Rejected("BookFull")

\* C18: a Limit or PostOnly order that would rest at a price with no level
\* index (below base_price, or at or past base_price + MAX_LEVELS * TICK_SIZE)
\* is returned as Rejected(InvalidPrice).
C18_OutOfRangePriceRejectsInvalidPrice ==
    (WouldRest /\ price_to_idx(last.order.price) = None)
        => last.result = Rejected("InvalidPrice")

\* C19: when the pool has no free slot, a Limit or PostOnly order that would
\* rest is returned as Rejected(PoolExhausted) and the pool's active count is
\* as before the call; the active count never exceeds the pool's capacity.
C19_PoolExhausted ==
    /\ (WouldRest /\ last.pre.pool.free_list = <<>> /\ last.execs = <<>>)
          => /\ last.result = Rejected("PoolExhausted")
             /\ pool.active_count = last.pre.pool.active_count
    /\ pool.active_count <= pool.capacity

\* The execution x changed the maker, its level, its side and the pool as
\* match_one_at_best does for any fill.
ExecApplied(x) ==
    LET maker_side == opposite(x.taker.side)
        qty == x.fill.quantity
        mk == OrderAt(x.pre.pool, x.handle)
        s0 == book_side(x.pre.book, maker_side)
        s1 == book_side(x.post.book, maker_side)
        lv0 == Unwrap(best_level(s0))
        lv1 == Unwrap(s1.levels[Unwrap(s0.best_idx)])
    IN /\ qty = Quantity_min(x.taker.remaining_qty, mk.remaining_qty)
       /\ OrderAt(x.post.pool, x.handle).remaining_qty = mk.remaining_qty - qty
       /\ lv1.total_qty = saturating_sub(lv0.total_qty, qty)
       /\ s1.total_qty = saturating_sub(s0.total_qty, qty)
       /\ IF mk.remaining_qty = qty
          THEN /\ level_iter(lv1) = Tail(level_iter(lv0))
               /\ s1.order_count = saturating_sub(s0.order_count, 1)
               /\ x.handle \notin x.post.live
               /\ x.post.pool.free_list = Append(x.pre.pool.free_list, x.handle)
               /\ x.post.pool.active_count = wrapping_dec(x.pre.pool.active_count)
          ELSE /\ level_iter(lv1) = level_iter(lv0)
               /\ s1.order_count = s0.order_count
               /\ x.post.live = x.pre.live
               /\ x.post.pool.free_list = x.pre.pool.free_list
               /\ x.post.pool.active_count = x.pre.pool.active_count

\* C20: when a call executes more than MAX_FILLS_PER_ORDER fills, the returned
\* fills are exactly the first MAX_FILLS_PER_ORDER in execution order, every
\* later execution updates maker, taker, level, side and pool as a recorded one
\* does, and matching goes on until the taker is filled or crosses no resting
\* order any more.
C20_TruncatedFillsStillExecuted ==
    (last.op = "submit" /\ Len(last.execs) > MAX_FILLS_PER_ORDER)
        => /\ last.result.fills
                 = [k \in 1..MAX_FILLS_PER_ORDER |-> last.execs[k].fill]
           /\ \A k \in (MAX_FILLS_PER_ORDER + 1)..Len(last.execs) :
                 /\ ExecApplied(last.execs[k])
                 /\ last.execs[k].taker.remaining_qty
                       = last.execs[k - 1].taker.remaining_qty
                           - last.execs[k - 1].fill.quantity
           /\ \/ SumQty(last.execs) = last.order.original_qty
              \/ ~CrossesResting(book, pool, live, last.order.price, last.order.side)

\* A taker crossed more makers than the fills sequence holds.
C20_Witness ==
    /\ last.op = "submit"
    /\ Len(last.execs) > MAX_FILLS_PER_ORDER
    /\ Len(last.result.fills) = MAX_FILLS_PER_ORDER
    /\ SumQty(last.execs) > SumQty(SubSeq(last.execs, 1, MAX_FILLS_PER_ORDER))

\* Sum over the levels 0..(n - 1) of side s of len() and of total_qty.
RECURSIVE SumLevelLen(_, _)
SumLevelLen(s, n) ==
    IF n = 0 THEN 0
    ELSE SumLevelLen(s, n - 1)
           + (IF IsSome(s.levels[n - 1]) THEN level_len(Unwrap(s.levels[n - 1])) ELSE 0)
RECURSIVE SumLevelQty(_, _)
SumLevelQty(s, n) ==
    IF n = 0 THEN 0
    ELSE SumLevelQty(s, n - 1)
           + (IF IsSome(s.levels[n - 1]) THEN Unwrap(s.levels[n - 1]).total_qty ELSE 0)

\* C21: after every submit_order and cancel_order, each side's order_count is
\* the sum of len() over its levels and its total_qty is the sum of the levels'
\* total_qty.
C21_SideCountersMatchLevels ==
    last.op \in {"submit", "cancel"}
        => \A side \in Sides :
              LET s == book_side(book, side)
              IN /\ s.order_count = SumLevelLen(s, MAX_LEVELS)
                 /\ s.total_qty = SumLevelQty(s, MAX_LEVELS)

\* C22: after every engine operation the pool's active count is within
\* 0..capacity and, added to the depth of the free stack, gives the capacity.
C22_PoolAccounting ==
    /\ pool.active_count <= pool.capacity
    /\ pool.active_count + Len(pool.free_list) = pool.capacity

\* C23: an operation that changes the book (a submit_order that rests or
\* fills, a cancel_order that returns an order) leaves sequence() strictly
\* greater than before, and no operation ever lowers it.
C23_SequenceAdvances ==
    last.op \in {"submit", "cancel"}
        => /\ sequence(book) >= sequence(last.pre.book)
           /\ (\/ last.result.kind \in {"Resting", "Filled", "PartialFill"}
               \/ Len(last.result.fills) > 0
               \/ last.ret /= None)
                  => sequence(book) > sequence(last.pre.book)

\* C28: whenever some handle has been deallocated and not allocated again,
\* allocate() returns the one deallocated most recently.
C28_PoolRecyclesLifo ==
    (recycle.op = "allocate" /\ recycle.before /= <<>>)
        => recycle.handle = Some(recycle.before[Len(recycle.before)])

\* Slot 0 freed before slot 1: allocate() hands back slot 1, the later one.
C28_Witness ==
    /\ recycle.op = "allocate"
    /\ recycle.before = <<0, 1>>
    /\ recycle.handle = Some(1)
    /\ recycle.freed = <<0>>

\* Sum of remaining_qty over the handles of a level's queue, front to back.
RECURSIVE SumQueue(_, _, _)
SumQueue(p, q, n) ==
    IF n = 0 THEN 0
    ELSE SumQueue(p, q, n - 1) + OrderAt(p, q[n]).remaining_qty

\* C30: after every submit_order and cancel_order, each level's total_qty is
\* the sum of remaining_qty of the orders whose handles are in its queue.
C30_LevelQtyMatchesQueue ==
    last.op \in {"submit", "cancel"}
        => \A side \in Sides : \A i \in 0..(MAX_LEVELS - 1) :
              LET l == book_side(book, side).levels[i]
              IN IsSome(l)
                   => Unwrap(l).total_qty
                        = SumQueue(pool, level_iter(Unwrap(l)), level_len(Unwrap(l)))

\* C24: under any interleaving of the producer and the consumer, the values
\* try_consume/consume have returned are a prefix of the values
\* try_publish/publish have published, in the same order: nothing lost,
\* duplicated or reordered, wrap-around of the slot index included.
C24_ConsumedIsPrefixOfPublished ==
    /\ Len(history.consumed) <= Len(history.published)
    /\ \A i \in 1..Len(history.consumed) :
          history.consumed[i] = history.published[i]

\* More values than the ring has slots went through it, and the slot used
\* twice carried two different values.
C24_Witness ==
    /\ Len(history.consumed) = N + 1
    /\ history.consumed = history.published
    /\ history.consumed[1] /= history.consumed[N + 1]

\* C25: try_publish returns false exactly when the ring is full
\* (write_cursor - read_cursor = N) at the moment it loads the real read
\* cursor; it never publishes into a full ring, and a try_publish that
\* returned false has changed neither write_cursor nor any slot.
C25_TryPublishFailsIffFull ==
    /\ producer.tp = "false"
          => /\ producer.refreshed
             /\ producer.saw_full
             /\ ring.write_cursor = producer.pre.write_cursor
             /\ ring.buffer = producer.pre.buffer
    /\ producer.tp = "true" => ~(producer.refreshed /\ producer.saw_full)
    /\ ring.write_cursor - ring.read_cursor <= N

\* try_publish has just returned false on a ring that had been emptied and
\* filled again.
C25_Witness ==
    /\ producer.pc = "idle"
    /\ producer.op = "try_publish"
    /\ producer.tp = "false"
    /\ history.consumed /= <<>>
    /\ ring.write_cursor - ring.read_cursor = N

\* C26: try_consume returns None exactly when the ring is empty
\* (read_cursor = write_cursor) at the moment it loads the real write cursor,
\* and it never reads a slot that has not been published.
C26_TryConsumeAbsentIffEmpty ==
    /\ consumer.tc = "absent" => (consumer.refreshed /\ consumer.saw_empty)
    /\ consumer.tc = "some" => ~(consumer.refreshed /\ consumer.saw_empty)
    /\ ~consumer.unpublished
    /\ ring.read_cursor <= ring.write_cursor

\* try_consume has just returned None on a ring that had held values before.
C26_Witness ==
    /\ consumer.pc = "idle"
    /\ consumer.op = "try_consume"
    /\ consumer.tc = "absent"
    /\ history.consumed /= <<>>
    /\ ring.read_cursor = ring.write_cursor

\* Values published and not yet consumed.
InRing == Len(history.published) - Len(history.consumed)

\* C29: with no publish or consume in flight, available() is the number of
\* values published and not yet consumed and remaining_capacity() is N minus
\* that number; under any interleaving what the two calls return lies in 0..N.
C29_AvailableAndRemainingCapacity ==
    /\ (producer.pc = "idle" /\ consumer.pc = "idle")
          => /\ available(ring) = InRing
             /\ remaining_capacity(ring) = N - InRing
    /\ (consumer.pc = "idle" /\ consumer.op = "available")
          => consumer.n \in 0..N
    /\ (producer.pc = "idle" /\ producer.op = "remaining_capacity")
          => producer.n \in 0..N

\* Both calls have returned on a quiet ring whose slot index has wrapped: one
\* value is waiting, N - 1 slots are free.
C29_Witness ==
    /\ producer.pc = "idle" /\ producer.op = "remaining_capacity"
    /\ consumer.pc = "idle" /\ consumer.op = "available"
    /\ Len(history.published) = N + 1
    /\ Len(history.consumed) = N
    /\ consumer.n = 1
    /\ producer.n = N - 1

\* A call in flight, a thread that has made its last call, the ring full and
\* the ring empty.
Pending(thread, op) == thread.op = op /\ thread.pc /= "idle"
ProducerStopped ==
    producer.pc = "idle" /\ producer.calls = client.producer_calls
ConsumerStopped ==
    consumer.pc = "idle" /\ consumer.calls = client.consumer_calls
Full == ring.write_cursor - ring.read_cursor = N
Empty == ring.read_cursor = ring.write_cursor

\* C27: under fair scheduling publish() returns unless the consumer has
\* stopped calling with the ring still full, consume() returns unless the
\* producer has stopped calling with the ring still empty, the two never
\* spin against each other for ever, and try_publish and try_consume always
\* return.
C27_RingProgress ==
    /\ Pending(producer, "publish")
          ~> (~Pending(producer, "publish") \/ (ConsumerStopped /\ Full))
    /\ Pending(consumer, "consume")
          ~> (~Pending(consumer, "consume") \/ (ProducerStopped /\ Empty))
    /\ []<>~(Pending(producer, "publish") /\ Pending(consumer, "consume"))
    /\ Pending(producer, "try_publish") ~> ~Pending(producer, "try_publish")
    /\ Pending(consumer, "try_consume") ~> ~Pending(consumer, "try_consume")

\* publish() is spinning on a full ring and the consumer, between two calls,
\* has calls left to make.
C27_Witness ==
    /\ producer.op = "publish" /\ producer.pc = "spin"
    /\ Full
    /\ consumer.pc = "idle"
    /\ consumer.calls < client.consumer_calls

\* The indices on the pool's free stack.
FreeSet(p) == {p.free_list[k] : k \in 1..Len(p.free_list)}

\* C31: after any sequence of submit_order and cancel_order calls every
\* handle in a price-level queue is live, no index is on the free stack
\* twice, none is both free and live, and free and live indices together are
\* exactly 0..capacity-1.
C31_QueuedHandlesLiveAndPoolPartitioned ==
    /\ QueuedHandles(book) \subseteq live
    /\ Cardinality(FreeSet(pool)) = Len(pool.free_list)
    /\ FreeSet(pool) \cap live = {}
    /\ FreeSet(pool) \cup live = 0..(pool.capacity - 1)

\* The handles in the queue of level i of a side.
LevelHandles(b, side, i) ==
    LET lv == book_side(b, side).levels[i]
    IN IF lv = None THEN {}
       ELSE {level_iter(Unwrap(lv))[k] : k \in 1..Unwrap(lv).order_count}

\* Number of queue entries of the whole book, a handle counted once for each
\* place it is queued at.
QueueEntries(b) == SumLevelLen(b.bids, MAX_LEVELS) + SumLevelLen(b.asks, MAX_LEVELS)

\* C32: after any sequence of submit_order and cancel_order calls no handle
\* is queued twice, in one level or in two, on either side, and every resting
\* order is queued in the level of its own side and price.
C32_HandleInExactlyOneLevel ==
    /\ QueueEntries(book) = Cardinality(QueuedHandles(book))
    /\ \A h \in live :
          LET o == OrderAt(pool, h)
          IN /\ IsSome(price_to_idx(o.price))
             /\ h \in LevelHandles(book, o.side, Unwrap(price_to_idx(o.price)))

\* C33: every price stored in the book is a multiple of TICK_SIZE: whatever
\* price was submitted, no order resting after a submit_order has a price off
\* the tick grid.
C33_RestingPricesOnTickGrid ==
    last.op = "submit"
        => \A h \in live : OrderAt(pool, h).price % TICK_SIZE = 0

\* Index i is a better price than index j on `side`.
BetterIdx(side, i, j) == IF side = "Buy" THEN i > j ELSE i < j

\* No non-empty level of side s lies at a better index than best_idx, and
\* none is non-empty when best_idx is absent.
BestIdxBounds(s) ==
    \A i \in 0..(MAX_LEVELS - 1) :
        level_nonempty(s, i)
            => /\ IsSome(s.best_idx)
               /\ ~BetterIdx(s.side, i, Unwrap(s.best_idx))

\* add_order(handle, order) on side s, when it succeeds, keeps the bounds,
\* moves best to the order's index if that is better (or best was absent) and
\* leaves best alone otherwise.
AddOrderMovesBest(s, handle, order) ==
    LET r == add_order(s, handle, order)
        idx == Unwrap(price_to_idx(order.price))
    IN r.ok
         => /\ BestIdxBounds(r.side)
            /\ r.side.best_idx =
                 IF s.best_idx = None \/ BetterIdx(s.side, idx, Unwrap(s.best_idx))
                 THEN Some(idx) ELSE s.best_idx

\* C34: after every submit_order and cancel_order, and after any add_order or
\* find_next_best applied to the side then, no non-empty level lies at a
\* better index than best_idx and none is non-empty when best_idx is absent;
\* add_order at a better price moves best to it, at a worse price leaves it.
C34_BestIdxBounds ==
    \A side \in Sides :
        LET s == book_side(book, side)
        IN /\ BestIdxBounds(s)
           /\ BestIdxBounds(find_next_best(s))
           /\ \A price \in Prices, qty \in 1..MaxQty, handle \in 0..(pool.capacity - 1) :
                 AddOrderMovesBest(s, handle,
                     Order_new(nops + 1, SYMBOL, side, "Limit", price, qty, 0))

\* Bids rested at two prices and the better level was emptied by a taker:
\* find_next_best moves best down to the other level, and an add_order at the
\* emptied price would move it back up.
C34_Witness ==
    LET s == book.bids
    IN /\ last.op = "submit"
       /\ s.best_idx = Some(2)
       /\ ~level_nonempty(s, 2)
       /\ level_nonempty(s, 1)
       /\ find_next_best(s).best_idx = Some(1)
       /\ add_order(find_next_best(s), 1,
                    Order_new(nops + 1, SYMBOL, "Buy", "Limit", 2 * TICK_SIZE, 1, 0)
                   ).side.best_idx = Some(2)

\* C35: in every reachable state of the ring, under any interleaving,
\* read_cursor <= write_cursor and write_cursor - read_cursor <= N, and no
\* step lowers either cursor.
C35_CursorBounds ==
    /\ [](/\ ring.read_cursor <= ring.write_cursor
          /\ ring.write_cursor - ring.read_cursor <= N)
    /\ [][/\ ring'.read_cursor >= ring.read_cursor
          /\ ring'.write_cursor >= ring.write_cursor]_vars

\* The ring is full again after its slot index has wrapped.
C35_Witness ==
    /\ ring.read_cursor > 0
    /\ ring.write_cursor - ring.read_cursor = N
    /\ ring.write_cursor > N

\* C36: the consumer reads the slot of cursor c only once the producer has
\* written it and published c, the producer writes the slot of cursor w only
\* once the consumer has finished reading the value of cursor w - N; the two
\* threads are never at the same slot together.
C36_SlotAccessOrdered ==
    /\ consumer.pc = "read" => consumer.read_pos < ring.write_cursor
    /\ producer.pc = "write" => producer.write_pos < ring.read_cursor + N
    /\ ~(/\ producer.pc = "write"
         /\ consumer.pc = "read"
         /\ slot_index(producer.write_pos) = slot_index(consumer.read_pos))

\* The producer is about to write one slot while the consumer is about to
\* read the other, after the slot index has wrapped.
C36_Witness ==
    /\ producer.pc = "write"
    /\ consumer.pc = "read"
    /\ producer.write_pos >= N
    /\ slot_index(producer.write_pos) /= slot_index(consumer.read_pos)

\* C40: in every reachable state, under any interleaving, cached_read <=
\* read_cursor and cached_write <= write_cursor.
C40_CachedCursorsNeverAhead ==
    /\ ring.cached_read <= ring.read_cursor
    /\ ring.cached_write <= ring.write_cursor

\* Both mirrors have been refreshed and both have fallen behind again.
C40_Witness ==
    /\ 0 < ring.cached_read /\ ring.cached_read < ring.read_cursor
    /\ 0 < ring.cached_write /\ ring.cached_write < ring.write_cursor

\* C37: a PriceLevel is a FIFO queue bounded by MAX_ORDERS_PER_LEVEL, also
\* when head and tail wrap: front and pop_front give the handles in push
\* order, len() is the number pushed and not popped, iter() yields them from
\* the head, push_back fails, changing nothing, exactly when the level is
\* full, and pop_front leaves total_qty alone.
C37_PriceLevelIsBoundedFifo ==
    /\ front(fifo.level)
         = (IF fifo.queue = <<>> THEN None ELSE Some(Head(fifo.queue)))
    /\ level_len(fifo.level) = Len(fifo.queue)
    /\ level_iter(fifo.level) = fifo.queue
    /\ Len(fifo.queue) <= MAX_ORDERS_PER_LEVEL
    /\ fifo.op = "push_back"
          => /\ fifo.ok = (level_len(fifo.pre) /= MAX_ORDERS_PER_LEVEL)
             /\ ~fifo.ok => fifo.level = fifo.pre
    /\ fifo.op = "pop_front"
          => /\ fifo.handle = (IF fifo.pre_queue = <<>> THEN None
                               ELSE Some(Head(fifo.pre_queue)))
             /\ fifo.level.total_qty = fifo.pre.total_qty

\* The buffer has wrapped: after a pop, a push has filled the level again, so
\* the newest handle sits in a cell before the head, and the two ends of the
\* queue hold different handles.
C37_Witness ==
    /\ fifo.op = "push_back"
    /\ fifo.ok
    /\ fifo.pops >= 1
    /\ fifo.level.head > 0
    /\ Len(fifo.queue) = MAX_ORDERS_PER_LEVEL
    /\ fifo.queue[1] /= fifo.queue[MAX_ORDERS_PER_LEVEL]

\* C38: after every submit_order and cancel_order the book is not crossed:
\* when best_bid() and best_ask() are both present best_bid() < best_ask(),
\* and no resting buy order has a price at or above a resting sell order's.
C38_BookNeverCrossed ==
    last.op \in {"submit", "cancel"}
        => /\ (IsSome(best_price(book.bids)) /\ IsSome(best_price(book.asks)))
                 => Unwrap(best_price(book.bids)) < Unwrap(best_price(book.asks))
           /\ \A hb \in live, hs \in live :
                 (OrderAt(pool, hb).side = "Buy" /\ OrderAt(pool, hs).side = "Sell")
                     => OrderAt(pool, hb).price < OrderAt(pool, hs).price

\* C39: every fill executed for a taker respects its limit (price <= the
\* limit for a buy taker, >= for a sell taker), has a quantity > 0 that is at
\* most the taker's and the maker's remaining quantity before the fill, and
\* names as maker_side the side opposite to the taker's.
C39_TakerLimitRespected ==
    last.op = "submit"
        => \A k \in 1..Len(last.execs) :
              LET x == last.execs[k]
                  mk == OrderAt(x.pre.pool, x.handle)
              IN /\ IF last.order.side = "Buy"
                    THEN x.fill.price <= last.order.price
                    ELSE x.fill.price >= last.order.price
                 /\ x.fill.quantity > 0
                 /\ x.fill.quantity <= x.taker.remaining_qty
                 /\ x.fill.quantity <= mk.remaining_qty
                 /\ x.fill.maker_side = opposite(last.order.side)

====
